---- MODULE Spec2Model ----
(***************************************************************************)
(* Model of build_schedule (src/streamlit_app.py), the greedy itinerary    *)
(* scheduler: one run is a sequential state machine over the clock t.      *)
(* The module also holds the selection state of the session               *)
(* (toggle_select, clear_all_selections), the verdict function evaluate    *)
(* the name normalisation norm_text and the login gate (login_gate,        *)
(* verify_passphrase).  The components do not share state; each            *)
(* specification runs one of them and leaves the others at rest.           *)
(*                                                                         *)
(* Encodings.                                                              *)
(*  - An optional value (Python None / NaN / a missing table row) is a     *)
(*    sequence of length at most one: None is <<>>, a value x is <<x>>.    *)
(*  - Factors (sell-out speed, wait multiplier, crowd speed) are floats    *)
(*    with two decimals in the source; they are kept in hundredths.        *)
(*  - A clock text "hh:mm" is the pair <<hh, mm>>.                         *)
(*  - An attraction is identified by its position in plans (the caller     *)
(*    builds plans from a dict keyed by park and attraction).              *)
(*  - A text is the sequence of its characters.                            *)
(*  - A dict is the set of its <<key, value>> items.                       *)
(***************************************************************************)
EXTENDS Integers, Sequences, FiniteSets, TLC

VARIABLES
    plans,             \* input: list of selections
    df_wait,           \* input: wait table, one optional row per attraction
    df_sellout,        \* input: sell-out table, one optional row per attraction
    df_factor,         \* input: factor table, one optional row per attraction
    crowd_stars,       \* input
    interval_min,      \* input
    open_hour,         \* input
    close_hour,        \* input
    tasks,             \* run state: one task per plan
    next_dpa_buy_min,  \* run state: DPA right
    next_pp_get_min,   \* run state: PP right
    timeline,          \* run state: emitted rows
    notes,             \* run state: emitted notes
    t,                 \* run state: the clock, minutes from open
    pc,                \* "loop" inside the while loop, "done" after return
    run,               \* number of the run on these inputs (1 or 2)
    prev,              \* result of the previous run on these inputs
    selected,          \* session_state["selected"]: row_key -> mode
    confirmed,         \* session_state["confirmed"]
    plan_confirmed,    \* session_state["plan_confirmed"]
    op,                \* the last handler of the session that ran, with its arguments
    total_points,      \* evaluate: argument
    limit,             \* evaluate: argument
    evaluation,        \* evaluate: the result (ev in main), None before the call
    name_a,            \* norm_text: a name as one table writes it
    name_b,            \* norm_text: the same name as another table writes it
    key_a,             \* norm_text(name_a), None before the call
    key_b,             \* norm_text(name_b), None before the call
    secrets,           \* st.secrets: None when unavailable, else the two hash entries
    auth_ok,           \* session_state["auth_ok"], None while the key is absent
    passphrase,        \* the text submitted with the last press of the login button
    page               \* what the last run of main showed: "login" or "app"

inputs == <<plans, df_wait, df_sellout, df_factor, crowd_stars, interval_min,
            open_hour, close_hour>>
locals == <<tasks, next_dpa_buy_min, next_pp_get_min, timeline, notes, t, pc>>
schedule == <<inputs, locals, run, prev>>
session == <<selected, confirmed, plan_confirmed, op>>
verdict == <<total_points, limit, evaluation>>
names == <<name_a, name_b, key_a, key_b>>
login == <<secrets, auth_ok, passphrase, page>>
ui == <<session, verdict, names, login>>
vars == <<schedule, ui>>

----------------------------------------------------------------------------
(* Bounds of the model *)

MaxPlans == 2

\* Number of selections in the runs that look at a ready booking next to
\* selections that are still open.
MaxPlansReady == 4

\* Number of rows of the points table (row keys of the session).
MaxKeys == 2

\* Largest total of points given to evaluate.
MaxPoints == 16

\* Longest passphrase typed into the login form.
MaxPass == 2

\* Longest name given to norm_text (before the variation of one character).
MaxLen == 3

----------------------------------------------------------------------------
(* Optional values *)

None == <<>>
Some(x) == <<x>>
IsNone(o) == o = <<>>
Val(o) == o[1]

\* F applied to the value of x (x is evaluated once, then bound).
Then(x, F(_)) == CHOOSE r \in {F(v) : v \in {x}} : TRUE

Min2(a, b) == IF a <= b THEN a ELSE b
Max2(a, b) == IF a >= b THEN a ELSE b

\* Python round() of the non-negative rational n/d: to nearest, ties to even.
PyRound(n, d) ==
    LET q == n \div d
        r == n % d
    IN  IF 2 * r < d THEN q
        ELSE IF 2 * r > d THEN q + 1
        ELSE IF q % 2 = 0 THEN q ELSE q + 1

----------------------------------------------------------------------------
(* Float arithmetic.  The factors are floats with two decimals (0.80, 1.15, *)
(* 1.40); as binary doubles most of them are not exact, and the source      *)
(* rounds the float result of a product or quotient, not the exact one:     *)
(* 50 * 1.15 is 57.49999999999999 and rounds to 57.  The operators below    *)
(* compute the rounded float result with integers: the double nearest to    *)
(* m/100 is m/100 + r * 2^(j-52) / 100 with 2^j <= m/100 < 2^(j+1) and a     *)
(* small integer r, and only a result whose exact value is a half-integer is *)
(* moved by such an error.                                                  *)

Abs(x) == IF x < 0 THEN -x ELSE x
Sign(x) == IF x > 0 THEN 1 ELSE IF x < 0 THEN -1 ELSE 0

RECURSIVE FloorLog2(_, _)
\* floor(log2(num / den)) for num, den > 0.
FloorLog2(num, den) ==
    IF num >= 2 * den THEN FloorLog2(num, 2 * den) + 1
    ELSE IF num < den THEN FloorLog2(2 * num, den) - 1
    ELSE 0

RECURSIVE Pow2Mod(_, _)
\* 2^k modulo n, for n below 2^15.
Pow2Mod(k, n) ==
    IF k <= 15 THEN (2^k) % n ELSE (((2^15) % n) * Pow2Mod(k - 15, n)) % n

\* The error r of the double nearest to m/100 in the binade j, in units of
\* 2^(j-52) / 100.
ErrIn(m, j) ==
    LET a == ((m % 100) * Pow2Mod(52 - j, 100)) % 100
    IN  [j |-> j, r |-> IF a < 50 THEN -a ELSE 100 - a]

\* The double nearest to m/100 (m > 0): its binade and its error.
FloatErr100(m) == Then(FloorLog2(m, 100), LAMBDA j : ErrIn(m, j))

\* Python round() of k + 1/2.
HalfEven(k) == IF k % 2 = 0 THEN k ELSE k + 1

\* Python round() of a double next to k + 1/2: below it (side -1), on it
\* (side 0) or above it (side 1).
RoundTie(k, side) ==
    IF side < 0 THEN k ELSE IF side > 0 THEN k + 1 ELSE HalfEven(k)

\* The sign of a * 2^ea - b * 2^eb.
ScaledCmp(a, ea, b, eb) ==
    Then(Min2(ea, eb), LAMBDA m : Sign(a * 2^(ea - m) - b * 2^(eb - m)))

\* round() of the float product base * mult whose exact value is k + 1/2,
\* given the error f of mult: the product is off the tie when its error
\* exceeds half the gap between the doubles around k + 1/2.
RoundProductTie(base, k, f) ==
    IF f.r = 0 THEN HalfEven(k)
    ELSE Then(FloorLog2(2 * k + 1, 2), LAMBDA J :
         IF ScaledCmp(base * Abs(f.r), f.j + (IF k = 0 /\ f.r < 0 THEN 2 ELSE 1),
                      100, J) <= 0
         THEN HalfEven(k)
         ELSE RoundTie(k, Sign(f.r)))

\* int(round(float(base) * mult)) for an integer base >= 0 and the float
\* mult of m hundredths.
RoundFloatProduct(base, m) ==
    Then(base, LAMBDA b : Then(m, LAMBDA mult :
        IF (b * mult) % 100 # 50 THEN PyRound(b * mult, 100)
        ELSE Then(FloatErr100(mult), LAMBDA f :
                  RoundProductTie(b, (b * mult) \div 100, f))))

\* The first-order error of the exact product of the doubles of C and S
\* hundredths, in units of 2^(e-52-sh) / 10^4.
FirstOrderErr(C, S, fc, fs, e, sh) ==
    C * fs.r * 2^(fs.j - e + sh) + S * fc.r * 2^(fc.j - e + sh)

\* The shift that makes the first-order error in the binade e an integer.
ErrShift(fc, fs, e) == Max2(0, Max2(e - fs.j, e - fc.j))

\* The binade of the float product: that of C * S / 10^4, or the one below
\* when C * S / 10^4 is a power of two and the product falls short of it.
ProductBinade(C, S, fc, fs, e0) ==
    IF /\ IF e0 >= 0 THEN C * S = 10000 * 2^e0 ELSE C * S * 2^(-e0) = 10000
       /\ \/ FirstOrderErr(C, S, fc, fs, e0, ErrShift(fc, fs, e0)) < 0
          \/ /\ FirstOrderErr(C, S, fc, fs, e0, ErrShift(fc, fs, e0)) = 0
             /\ fc.r * fs.r < 0
    THEN e0 - 1 ELSE e0

\* Rounding to the nearest double, ties to the even significand: the exact
\* product lies num/den + (a second-order term of the sign tiny) above a
\* double whose distance to C * S / 10^4 is -a; the result is the error of
\* the double nearest to the product.
NearestErr(a, odd, num, den, tiny) ==
    LET g0 == (2 * num + den) \div (2 * den)
    IN  10000 * (IF (2 * num + den) % (2 * den) # 0 THEN g0
                 ELSE IF tiny < 0 THEN g0 - 1
                 ELSE IF tiny = 0 /\ ((g0 % 2 = 1) # odd) THEN g0 - 1
                 ELSE g0) - a

\* The double of the float product of C hundredths and S hundredths: its
\* binade e and its error r against C * S / 10^4, in units of
\* 2^(e-52) / 10^4.
FloatProductErr(C, S) ==
    Then(FloatErr100(C), LAMBDA fc :
    Then(FloatErr100(S), LAMBDA fs :
    Then(FloorLog2(C * S, 10000), LAMBDA e0 :
    Then(ProductBinade(C, S, fc, fs, e0), LAMBDA e :
    Then(ErrShift(fc, fs, e), LAMBDA sh :
    Then((((C * S) % 20000) * Pow2Mod(52 - e, 20000)) % 20000, LAMBDA a2 :
        [e |-> e,
         r |-> NearestErr(a2 % 10000, a2 >= 10000,
                          (a2 % 10000) * 2^sh + FirstOrderErr(C, S, fc, fs, e, sh),
                          10000 * 2^sh, Sign(fc.r * fs.r))]))))))

\* round() of the float quotient raw / p whose exact value is k + 1/2, given
\* the error of the float divisor p, which is den / 10^4 exactly: a divisor
\* too large puts the quotient below the tie, one too small above it.
RoundQuotientTie(k, den, p) ==
    IF p.r = 0 THEN HalfEven(k)
    ELSE Then(FloorLog2(2 * k + 1, 2), LAMBDA J :
         IF p.r > 0
         THEN RoundTie(k, IF ScaledCmp((2 * k + 1) * p.r,
                                       p.e + (IF k = 0 THEN 1 ELSE 0), den, J) > 0
                          THEN -1 ELSE 0)
         ELSE RoundTie(k, IF ScaledCmp((2 * k + 1) * (-p.r), p.e, den, J) >= 0
                          THEN 1 ELSE 0))

\* int(round(raw / (c * s))) for an integer raw >= 0 and the floats c of C
\* hundredths and s of S hundredths.
RoundFloatQuotient(raw, C, S) ==
    Then(raw * 10000, LAMBDA num : Then(C, LAMBDA c : Then(S, LAMBDA s :
        IF (2 * num) % (c * s) # 0 \/ ((2 * num) \div (c * s)) % 2 = 0
        THEN PyRound(num, c * s)
        ELSE Then(FloatProductErr(c, s), LAMBDA p :
                  RoundQuotientTie(num \div (c * s), c * s, p)))))

----------------------------------------------------------------------------
(* Selection modes *)

MODE_WAIT == "WAIT"
MODE_DPA == "DPA"
MODE_PP == "PP"

Modes == {MODE_WAIT, MODE_DPA, MODE_PP}

----------------------------------------------------------------------------
(* Table lookups.  Each table holds at most one row per attraction; a      *)
(* lookup that finds no row returns the documented default.                *)

\* Columns hour_09 .. hour_21 of the wait table.
WaitCols == 9..21

\* Variant of get_wait_minutes: without a row for the attraction the wait
\* is 0.
get_wait_minutes_zero(dfw, attraction, hour) ==
    IF IsNone(dfw[attraction]) THEN 0
    ELSE LET r == Val(dfw[attraction])
         IN  IF hour \notin DOMAIN r THEN 30
             ELSE IF IsNone(r[hour]) THEN 30 ELSE Val(r[hour])

get_wait_minutes(dfw, attraction, hour) ==
    IF IsNone(dfw[attraction]) THEN 30
    ELSE LET r == Val(dfw[attraction])
         IN  IF hour \notin DOMAIN r THEN 30
             ELSE IF IsNone(r[hour]) THEN 30 ELSE Val(r[hour])

get_sellout_hour(dfs, attraction, mode) ==
    IF IsNone(dfs[attraction]) THEN None
    ELSE LET r == Val(dfs[attraction])
         IN  IF mode = MODE_DPA THEN r.dpa_sellout_hour ELSE r.pp_sellout_hour

\* Hundredths: defaults 1.00 (morning), 1.15 (noon), 0.90 (evening).
factor_wait_multiplier(dff, attraction, hour) ==
    LET pick(cell, default) == IF IsNone(cell) THEN default ELSE Val(cell)
        has == ~IsNone(dff[attraction])
        r == Val(dff[attraction])
        wm == IF has THEN pick(r.wait_multiplier_morning, 100) ELSE 100
        wn == IF has THEN pick(r.wait_multiplier_noon, 115) ELSE 115
        we == IF has THEN pick(r.wait_multiplier_evening, 90) ELSE 90
    IN  IF 9 <= hour /\ hour <= 11 THEN wm
        ELSE IF 12 <= hour /\ hour <= 17 THEN wn
        ELSE we

\* Hundredths: 1.00 when there is no row or no value.
factor_sellout_speed(dff, attraction, mode) ==
    IF IsNone(dff[attraction]) THEN 100
    ELSE LET r == Val(dff[attraction])
         IN  IF mode = MODE_DPA
             THEN (IF IsNone(r.dpa_sellout_speed) THEN 100 ELSE Val(r.dpa_sellout_speed))
             ELSE IF mode = MODE_PP
             THEN (IF IsNone(r.pp_sellout_speed) THEN 100 ELSE Val(r.pp_sellout_speed))
             ELSE 100

----------------------------------------------------------------------------
(* Clock helpers *)

minutes_to_hhmm(min_from_open, oh) ==
    LET total == oh * 60 + min_from_open
    IN  <<total \div 60, total % 60>>

\* Variant of hour_from_min: the hour is counted from the open time.
hour_from_min_no_open(min_from_open, oh) == min_from_open \div 60

\* The hour bucket of a clock given in minutes from the open time.
hour_from_min(min_from_open, oh) == (oh * 60 + min_from_open) \div 60

T_OPEN == 0
T_CLOSE == (close_hour - open_hour) * 60

\* Hundredths: {3: 1.00, 2: 0.90, 1: 0.80}.get(crowd_stars, 0.90)
crowd_speed ==
    IF crowd_stars = 3 THEN 100
    ELSE IF crowd_stars = 2 THEN 90
    ELSE IF crowd_stars = 1 THEN 80
    ELSE 90

----------------------------------------------------------------------------
(* build_schedule: state at entry *)

\* One task per plan; a missing duration becomes 10.
MakeTask(i, p) ==
    [ attraction |-> i,
      mode |-> p.mode,
      status |-> "todo",
      return_min |-> None,
      duration |-> IF IsNone(p.duration) THEN 10 ELSE Val(p.duration),
      wait_override_min |-> p.wait_override_min ]

\* Variant of EntryState: the tasks are built by taking the plans off the
\* caller's list one by one, which leaves that list empty.
EntryStateDrainPlans(ps) ==
    [ plans |-> <<>>,
      tasks |-> [i \in 1..Len(ps) |-> MakeTask(i, ps[i])],
      next_dpa_buy_min |-> 0,
      next_pp_get_min |-> 0,
      timeline |-> <<>>,
      notes |-> <<>>,
      t |-> 0 ]

\* The locals after the set-up, and the caller's list of plans as the set-up
\* leaves it: the for loop reads each plan and writes none.
EntryState(ps) ==
    [ plans |-> ps,
      tasks |-> [i \in 1..Len(ps) |-> MakeTask(i, ps[i])],
      next_dpa_buy_min |-> 0,
      next_pp_get_min |-> 0,
      timeline |-> <<>>,
      notes |-> <<>>,
      t |-> 0 ]

----------------------------------------------------------------------------
(* build_schedule: nested helpers.  s is the record of the run's locals.   *)

\* Variant of ride_end_of: the end is not capped at the close time.
ride_end_uncapped(ride_start_min, dur_min) == ride_start_min + dur_min

\* The end of a ride is capped at the close time.
ride_end_of(ride_start_min, dur_min) == Min2(ride_start_min + dur_min, T_CLOSE)

\* Appends one row; returns the timeline and the (capped) ride end.
add_event(tl, ride_start_min, dur_min, task, note, queue_start_min) ==
    LET ride_end_min == ride_end_of(ride_start_min, dur_min)
        row == [ queue_start |-> IF IsNone(queue_start_min) THEN None
                                 ELSE Some(minutes_to_hhmm(Val(queue_start_min), open_hour)),
                 start |-> minutes_to_hhmm(ride_start_min, open_hour),
                 end |-> minutes_to_hhmm(ride_end_min, open_hour),
                 attraction |-> task.attraction,
                 mode |-> task.mode,
                 memo |-> note ]
    IN  [timeline |-> Append(tl, row), ride_end |-> ride_end_min]

\* Variant of find_booked_ready: a slot is ready only after its return time.
find_booked_ready_strict(tks, now_min) ==
    LET ready == {i \in 1..Len(tks) :
                     /\ tks[i].status = "booked"
                     /\ ~IsNone(tks[i].return_min)
                     /\ Val(tks[i].return_min) < now_min}
    IN  IF ready = {} THEN None
        ELSE Some(CHOOSE i \in ready : \A j \in ready :
                     \/ Val(tks[i].return_min) < Val(tks[j].return_min)
                     \/ /\ Val(tks[i].return_min) = Val(tks[j].return_min)
                        /\ i <= j)

\* Index of the ready booked task with the earliest return_min (first on ties).
find_booked_ready(tks, now_min) ==
    LET ready == {i \in 1..Len(tks) :
                     /\ tks[i].status = "booked"
                     /\ ~IsNone(tks[i].return_min)
                     /\ Val(tks[i].return_min) <= now_min}
    IN  IF ready = {} THEN None
        ELSE Some(CHOOSE i \in ready : \A j \in ready :
                     \/ Val(tks[i].return_min) < Val(tks[j].return_min)
                     \/ /\ Val(tks[i].return_min) = Val(tks[j].return_min)
                        /\ i <= j)

\* The crowd- and speed-adjusted sell-out hour of a task, None without entry.
sellout_hour_eff(task) ==
    LET sellout_hour_raw == get_sellout_hour(df_sellout, task.attraction, task.mode)
        sp == factor_sellout_speed(df_factor, task.attraction, task.mode)
    IN  IF IsNone(sellout_hour_raw) THEN None
        \* max(0.2, crowd_speed * sp): a quotient by the float 0.2 is next to
        \* the integer 5 * raw, and rounds to it
        ELSE IF Max2(2000, crowd_speed * sp) = 2000
        THEN Some(PyRound(Val(sellout_hour_raw) * 10000, 2000))
        ELSE Some(RoundFloatQuotient(Val(sellout_hour_raw), crowd_speed, sp))

\* Variant of sold_out: the sell-out hour itself is still bookable.
sold_out_strict(eff, now_hour) == ~IsNone(eff) /\ now_hour > Val(eff)

\* Variant of sold_out: a selection without a sell-out hour counts as sold out.
sold_out_or_missing(eff, now_hour) == IsNone(eff) \/ now_hour >= Val(eff)

\* "if sold out already": the hour has reached the adjusted sell-out hour.
sold_out(eff, now_hour) == ~IsNone(eff) /\ now_hour >= Val(eff)

\* Variant of earliest_possible_return_min: the slot returned is the start of
\* the hour bucket, not the current time.
earliest_possible_return_min_hour_start(task, now_min) ==
    LET now_hour == hour_from_min(now_min, open_hour)
        eff == sellout_hour_eff(task)
    IN  IF sold_out(eff, now_hour) THEN None
        ELSE IF now_hour <= close_hour
        THEN Some(Max2((now_hour - open_hour) * 60, T_OPEN))
        ELSE None

\* Variant of earliest_possible_return_min: the sold-out test uses the hour of
\* the table, without the crowd and speed adjustment.
earliest_possible_return_min_raw(task, now_min) ==
    LET now_hour == hour_from_min(now_min, open_hour)
        raw == get_sellout_hour(df_sellout, task.attraction, task.mode)
    IN  IF sold_out(raw, now_hour) THEN None
        ELSE IF now_hour <= close_hour THEN Some(now_min)
        ELSE None

\* Variant of earliest_possible_return_min: the slot returned is the start of
\* the next hour bucket.
earliest_possible_return_min_next_hour(task, now_min) ==
    LET now_hour == hour_from_min(now_min, open_hour)
        eff == sellout_hour_eff(task)
    IN  IF sold_out(eff, now_hour) THEN None
        ELSE IF now_hour <= close_hour
        THEN Some((now_hour + 1 - open_hour) * 60)
        ELSE None

\* The earliest return time of a slot booked at now_min, None when sold out.
earliest_possible_return_min(task, now_min) ==
    LET now_hour == hour_from_min(now_min, open_hour)
        eff == sellout_hour_eff(task)
    IN  IF sold_out(eff, now_hour) THEN None
        \* the while loop returns in its first pass (cand_hour = now_hour)
        ELSE IF now_hour <= close_hour THEN Some(now_min)
        ELSE None

\* (sell-out hour or 99, -speed): the sort key of book_one's candidates.
score(task) ==
    LET sh == get_sellout_hour(df_sellout, task.attraction, task.mode)
        sp == factor_sellout_speed(df_factor, task.attraction, task.mode)
    IN  <<IF IsNone(sh) THEN 99 ELSE Val(sh), -sp>>

ScoreLess(a, b) == a[1] < b[1] \/ (a[1] = b[1] /\ a[2] < b[2])

\* Variant of cooldown_due: the cooldown also applies to an immediate slot.
cooldown_always(ret, now_min) == ret >= now_min

\* The right's cooldown applies only to a slot later than the booking time.
cooldown_due(ret, now_min) == ret > now_min

\* The todo tasks of a mode.
candidates(tks, mode) ==
    {i \in 1..Len(tks) : tks[i].status = "todo" /\ tks[i].mode = mode}

\* Variant of best_candidate: the first candidate in input order.
best_candidate_first(tks, mode) ==
    CHOOSE c \in candidates(tks, mode) : \A d \in candidates(tks, mode) : c <= d

\* candidates_sorted[0]: sorted() is stable, so the first candidate with the
\* least score.
best_candidate(tks, mode) ==
    CHOOSE c \in candidates(tks, mode) : \A d \in candidates(tks, mode) :
        \/ ScoreLess(score(tks[c]), score(tks[d]))
        \/ /\ score(tks[c]) = score(tks[d])
           /\ c <= d

\* Variant of book_task that leaves a sold-out task todo.
book_task_retry(s, now_min, mode, i, ret) ==
    IF IsNone(ret)
    THEN [ s |-> s,
           note |-> Some([kind |-> "soldout", mode |-> mode,
                          attraction |-> s.tasks[i].attraction, ret |-> None]) ]
    ELSE [ s |-> [s EXCEPT
                    !.tasks[i].status = "booked",
                    !.tasks[i].return_min = ret,
                    !.next_dpa_buy_min =
                        IF mode = MODE_DPA /\ cooldown_due(Val(ret), now_min)
                        THEN Max2(@, now_min + 60) ELSE @,
                    !.next_pp_get_min =
                        IF mode # MODE_DPA /\ cooldown_due(Val(ret), now_min)
                        THEN Max2(@, now_min + 120) ELSE @],
           note |-> Some([kind |-> "booked", mode |-> mode,
                          attraction |-> s.tasks[i].attraction,
                          ret |-> Some(minutes_to_hhmm(Val(ret), open_hour))]) ]

\* The outcome of the attempt for task i, given its return time ret.
book_task(s, now_min, mode, i, ret) ==
    IF IsNone(ret)
    THEN [ s |-> [s EXCEPT !.tasks[i].status = "done"],
           note |-> Some([kind |-> "soldout", mode |-> mode,
                          attraction |-> s.tasks[i].attraction, ret |-> None]) ]
    ELSE [ s |-> [s EXCEPT
                    !.tasks[i].status = "booked",
                    !.tasks[i].return_min = ret,
                    !.next_dpa_buy_min =
                        IF mode = MODE_DPA /\ cooldown_due(Val(ret), now_min)
                        THEN Max2(@, now_min + 60) ELSE @,
                    !.next_pp_get_min =
                        IF mode # MODE_DPA /\ cooldown_due(Val(ret), now_min)
                        THEN Max2(@, now_min + 120) ELSE @],
           note |-> Some([kind |-> "booked", mode |-> mode,
                          attraction |-> s.tasks[i].attraction,
                          ret |-> Some(minutes_to_hhmm(Val(ret), open_hour))]) ]

\* One booking attempt for a mode at now_min.  Returns the locals and the
\* note (None when there is no candidate).
book_one(s, now_min, mode) ==
    IF candidates(s.tasks, mode) = {} THEN [s |-> s, note |-> None]
    ELSE Then(best_candidate(s.tasks, mode),
              LAMBDA i : Then(earliest_possible_return_min(s.tasks[i], now_min),
                              LAMBDA ret : book_task(s, now_min, mode, i, ret)))

\* Variant of duration_min: a non-positive duration is kept.
duration_min_raw(task) == task.duration

\* A non-positive duration becomes 10.
duration_min(task) == IF task.duration <= 0 THEN 10 ELSE task.duration

\* Variant of do_booked: the right of the consumed mode comes back an hour
\* after the ride.
do_booked_right_after_ride(s, i, now_min) ==
    LET task == s.tasks[i]
        finish(ev) ==
            [s EXCEPT
               !.timeline = ev.timeline,
               !.tasks[i].status = "done",
               !.tasks[i].return_min = None,
               !.next_dpa_buy_min = IF task.mode = MODE_DPA THEN ev.ride_end + 60 ELSE @,
               !.next_pp_get_min = IF task.mode = MODE_PP THEN ev.ride_end + 60 ELSE @,
               !.t = ev.ride_end + interval_min]
    IN  Then(add_event(s.timeline, now_min, duration_min(task), task,
                       [kind |-> "consume", base_wait |-> None, mult |-> None,
                        duration_min |-> None],
                       None),
             finish)

\* Consumes booked task i at now_min; the clock becomes ride end + interval.
do_booked(s, i, now_min) ==
    LET task == s.tasks[i]
        finish(ev) ==
            [s EXCEPT
               !.timeline = ev.timeline,
               !.tasks[i].status = "done",
               !.tasks[i].return_min = None,
               !.next_dpa_buy_min = IF task.mode = MODE_DPA THEN Min2(@, ev.ride_end) ELSE @,
               !.next_pp_get_min = IF task.mode = MODE_PP THEN Min2(@, ev.ride_end) ELSE @,
               !.t = ev.ride_end + interval_min]
    IN  Then(add_event(s.timeline, now_min, duration_min(task), task,
                       [kind |-> "consume", base_wait |-> None, mult |-> None,
                        duration_min |-> None],
                       None),
             finish)

\* The wait applied to the clock for a queue task: int(round(base * mult)).
base_wait(task, hour) ==
    IF ~IsNone(task.wait_override_min) THEN Val(task.wait_override_min)
    ELSE get_wait_minutes(df_wait, task.attraction, hour)

wait_total(task, hour) ==
    RoundFloatProduct(base_wait(task, hour),
                      factor_wait_multiplier(df_factor, task.attraction, hour))

\* Variant of do_wait: the clock is advanced from the queue start, leaving
\* out the wait.
do_wait_from_queue_start(s, i, now_min) ==
    LET task == s.tasks[i]
        hour == hour_from_min(now_min, open_hour)
        queue(ride_start) ==
            add_event(s.timeline, ride_start, duration_min(task), task,
                      [kind |-> "wait",
                       base_wait |-> Some(base_wait(task, hour)),
                       mult |-> Some(factor_wait_multiplier(df_factor, task.attraction, hour)),
                       duration_min |-> Some(duration_min(task))],
                      Some(now_min))
        finish(ev) ==
            [s EXCEPT
               !.timeline = ev.timeline,
               !.tasks[i].status = "done",
               !.t = Min2(now_min + duration_min(task), T_CLOSE) + interval_min]
    IN  Then(Then(now_min + wait_total(task, hour), queue), finish)

\* Variant of do_wait: a ride that cannot start before close is skipped, and
\* its task is left todo.
do_wait_skip_late(s, i, now_min) ==
    LET task == s.tasks[i]
        hour == hour_from_min(now_min, open_hour)
        queue(ride_start) ==
            add_event(s.timeline, ride_start, duration_min(task), task,
                      [kind |-> "wait",
                       base_wait |-> Some(base_wait(task, hour)),
                       mult |-> Some(factor_wait_multiplier(df_factor, task.attraction, hour)),
                       duration_min |-> Some(duration_min(task))],
                      Some(now_min))
        finish(ev) ==
            [s EXCEPT
               !.timeline = ev.timeline,
               !.tasks[i].status = "done",
               !.t = ev.ride_end + interval_min]
        skip_late(ride_start) ==
            IF ride_start >= T_CLOSE THEN s ELSE Then(queue(ride_start), finish)
    IN  Then(now_min + wait_total(task, hour), skip_late)

\* Variant of do_wait: the task is not marked done.
do_wait_keep_todo(s, i, now_min) ==
    LET task == s.tasks[i]
        hour == hour_from_min(now_min, open_hour)
        queue(ride_start) ==
            add_event(s.timeline, ride_start, duration_min(task), task,
                      [kind |-> "wait",
                       base_wait |-> Some(base_wait(task, hour)),
                       mult |-> Some(factor_wait_multiplier(df_factor, task.attraction, hour)),
                       duration_min |-> Some(duration_min(task))],
                      Some(now_min))
        finish(ev) ==
            [s EXCEPT
               !.timeline = ev.timeline,
               !.t = ev.ride_end + interval_min]
    IN  Then(Then(now_min + wait_total(task, hour), queue), finish)

\* Queues for task i at now_min; the clock becomes ride end + interval.
do_wait(s, i, now_min) ==
    LET task == s.tasks[i]
        hour == hour_from_min(now_min, open_hour)
        queue(ride_start) ==
            add_event(s.timeline, ride_start, duration_min(task), task,
                      [kind |-> "wait",
                       base_wait |-> Some(base_wait(task, hour)),
                       mult |-> Some(factor_wait_multiplier(df_factor, task.attraction, hour)),
                       duration_min |-> Some(duration_min(task))],
                      Some(now_min))
        finish(ev) ==
            [s EXCEPT
               !.timeline = ev.timeline,
               !.tasks[i].status = "done",
               !.t = ev.ride_end + interval_min]
    IN  Then(Then(now_min + wait_total(task, hour), queue), finish)

next_booked_return_min(tks) ==
    LET mins == {Val(tks[i].return_min) : i \in
                    {j \in 1..Len(tks) : tks[j].status = "booked"
                                          /\ ~IsNone(tks[j].return_min)}}
    IN  IF mins = {} THEN None
        ELSE Some(CHOOSE m \in mins : \A n \in mins : m <= n)

\* The queue task picked in step 4: least table wait at this hour, first on
\* ties (sorted() is stable).  The key is the table wait, not the applied one.
pick_wait_task(tks, hour) ==
    LET wait_tasks == {i \in 1..Len(tks) :
                          tks[i].status = "todo" /\ tks[i].mode = MODE_WAIT}
        key(i) == get_wait_minutes(df_wait, tks[i].attraction, hour)
    IN  IF wait_tasks = {} THEN None
        ELSE Some(CHOOSE i \in wait_tasks : \A j \in wait_tasks :
                     key(i) < key(j) \/ (key(i) = key(j) /\ i <= j))

\* notes.append(note) when book_one returned a note.
add_note(b) ==
    IF IsNone(b.note) THEN b.s ELSE [b.s EXCEPT !.notes = Append(@, Val(b.note))]

book_and_note(s, mode) == Then(book_one(s, s.t, mode), add_note)

try_pp(s1) ==
    IF s1.t >= s1.next_pp_get_min THEN book_and_note(s1, MODE_PP) ELSE s1

\* Step 2 of the loop: one booking attempt per mode whose right is available.
try_bookings(s) ==
    Then(IF s.t >= s.next_dpa_buy_min THEN book_and_note(s, MODE_DPA) ELSE s,
         try_pp)

IdleRow(from_min, to_min) ==
    [ queue_start |-> None,
      start |-> minutes_to_hhmm(from_min, open_hour),
      end |-> minutes_to_hhmm(Min2(to_min, T_CLOSE), open_hour),
      attraction |-> 0,
      mode |-> "",
      memo |-> [kind |-> "idle", base_wait |-> None, mult |-> None,
                duration_min |-> None] ]

Continue(s) == [s |-> s, exit |-> FALSE]
Break(s) == [s |-> s, exit |-> TRUE]

\* Variant of step_idle: with nothing booked, the rest of the day is
\* emitted as an idle block instead of leaving the loop.
step_idle_to_close(s2, nb) ==
    IF IsNone(nb)
    THEN Continue([s2 EXCEPT !.timeline = Append(@, IdleRow(s2.t, T_CLOSE)),
                             !.t = T_CLOSE])
    ELSE IF Val(nb) > s2.t
    THEN Continue([s2 EXCEPT !.timeline = Append(@, IdleRow(s2.t, Val(nb))),
                             !.t = Val(nb)])
    ELSE Continue([s2 EXCEPT !.t = @ + 5])

\* Step 5: nothing to do now; jump to the next booked slot, else finish.
step_idle(s2, nb) ==
    IF IsNone(nb) THEN Break(s2)
    ELSE IF Val(nb) > s2.t
    THEN Continue([s2 EXCEPT !.timeline = Append(@, IdleRow(s2.t, Val(nb))),
                             !.t = Val(nb)])
    ELSE Continue([s2 EXCEPT !.t = @ + 5])

\* Step 4: queue for a WAIT task if there is one.
step_wait(s2, w) ==
    IF ~IsNone(w) THEN Continue(do_wait(s2, Val(w), s2.t))
    ELSE Then(next_booked_return_min(s2.tasks), LAMBDA nb : step_idle(s2, nb))

\* Step 3: a slot booked for now is consumed at once.
step_consume_new(s2, idx2) ==
    IF ~IsNone(idx2) THEN Continue(do_booked(s2, Val(idx2), s2.t))
    ELSE Then(pick_wait_task(s2.tasks, hour_from_min(s2.t, open_hour)),
              LAMBDA w : step_wait(s2, w))

\* Variant of after_bookings: step 3 is left out, a slot booked for now is
\* not consumed in the pass that booked it.
after_bookings_no_consume(s2) == step_consume_new(s2, None)

\* Steps 2 to 5, from the locals as the booking attempts left them.
after_bookings(s2) ==
    Then(find_booked_ready(s2.tasks, s2.t), LAMBDA idx2 : step_consume_new(s2, idx2))

\* Variant of step_consume_ready: the continue after the consumption is left
\* out, the pass goes on with steps 2 to 5.
step_consume_ready_no_continue(s, idx) ==
    IF ~IsNone(idx)
    THEN Then(Then(do_booked(s, Val(idx), s.t), try_bookings), after_bookings)
    ELSE Then(try_bookings(s), after_bookings)

\* Step 1: a booked task that is ready is consumed before anything else.
step_consume_ready(s, idx) ==
    IF ~IsNone(idx) THEN Continue(do_booked(s, Val(idx), s.t))
    ELSE Then(try_bookings(s), after_bookings)

\* One pass of the while loop body, entered with s.t < T_CLOSE.  Returns the
\* locals and whether the pass left the loop by break.
LoopBody(s) ==
    Then(find_booked_ready(s.tasks, s.t), LAMBDA idx : step_consume_ready(s, idx))

----------------------------------------------------------------------------
(* Inputs of the model *)

WaitRowChoices ==
    { None,
      Some([h \in WaitCols |-> Some(IF h <= 10 THEN 40 ELSE 20)]),
      Some([h \in WaitCols |-> Some(700)]),
      Some([h \in WaitCols |-> IF h = 9 THEN None ELSE Some(5)]),
      \* a table without the column hour_09
      Some([h \in WaitCols \ {9} |-> Some(5)]) }

SelloutRow(mode, hour) ==
    Some([ dpa_sellout_hour |-> IF mode = MODE_DPA THEN Some(hour) ELSE None,
           pp_sellout_hour |-> IF mode = MODE_PP THEN Some(hour) ELSE None ])

SelloutHours == {8, 9, 10}

\* A factor row: waits double in the morning, DPA sells out at half speed,
\* PP at double speed.
FactorRow ==
    Some([ wait_multiplier_morning |-> Some(200),
           wait_multiplier_noon |-> None,
           wait_multiplier_evening |-> None,
           dpa_sellout_speed |-> Some(50),
           pp_sellout_speed |-> Some(200) ])

\* A factor row: DPA sells out at double speed.
FastFactorRow ==
    Some([ wait_multiplier_morning |-> None,
           wait_multiplier_noon |-> None,
           wait_multiplier_evening |-> None,
           dpa_sellout_speed |-> Some(200),
           pp_sellout_speed |-> None ])

\* A factor row: DPA sells out at 1.4 times the speed.
BriskFactorRow ==
    Some([ wait_multiplier_morning |-> None,
           wait_multiplier_noon |-> None,
           wait_multiplier_evening |-> None,
           dpa_sellout_speed |-> Some(140),
           pp_sellout_speed |-> None ])

Choice(mode, duration, override, wait_row, sellout_row, factor_row) ==
    [ plan |-> [mode |-> mode, duration |-> duration, wait_override_min |-> override],
      wait_row |-> wait_row,
      sellout_row |-> sellout_row,
      factor_row |-> factor_row ]

\* A selection together with the table rows of its attraction.
PlanChoices ==
    {Choice(MODE_WAIT, None, None, w, None, None) : w \in WaitRowChoices}
    \cup {Choice(MODE_WAIT, Some(5), None, None, None, f) : f \in {None, FactorRow}}
    \cup {Choice(MODE_WAIT, None, Some(5), Some([h \in WaitCols |-> Some(700)]), None, None)}
    \cup {Choice(m, Some(0), None, None, None, None) : m \in {MODE_DPA, MODE_PP}}
    \cup {Choice(m, Some(0), None, None, SelloutRow(m, h), None) :
             m \in {MODE_DPA, MODE_PP}, h \in SelloutHours}
    \cup {Choice(m, Some(5), None, None, SelloutRow(m, h), FactorRow) :
             m \in {MODE_DPA, MODE_PP}, h \in SelloutHours}
    \cup {Choice(MODE_DPA, Some(5), None, None, SelloutRow(MODE_DPA, 10), FastFactorRow)}
    \* a ride of three hours, which takes the clock from opening to noon
    \cup {Choice(MODE_DPA, Some(180), None, None, None, None)}
    \* 50 minutes given by hand: at noon the float 50 * 1.15 is below 57.5
    \cup {Choice(MODE_WAIT, Some(5), Some(50), None, None, None)}
    \* sell-out hour 14 at speed 1.40: with the crowd speed 0.80 the float
    \* 14 / (0.80 * 1.40) is above 12.5
    \cup {Choice(MODE_DPA, Some(5), None, None, SelloutRow(MODE_DPA, 14), BriskFactorRow)}

CrowdStars == {1, 2, 3}
Intervals == {0, 15}
Windows == {<<9, 21>>}

PlanLists == UNION {[1..n -> PlanChoices] : n \in 0..MaxPlans}

\* Selections for the longer runs: a DPA and a PP selection that are never
\* sold out, a queue selection and a queue selection of 700 minutes.
ReadyChoices ==
    { Choice(MODE_DPA, Some(5), None, None, None, None),
      Choice(MODE_PP, Some(5), None, None, None, None),
      Choice(MODE_WAIT, None, None,
             Some([h \in WaitCols |-> Some(IF h <= 10 THEN 40 ELSE 20)]), None, None),
      Choice(MODE_WAIT, None, None, Some([h \in WaitCols |-> Some(700)]), None, None) }

\* At least three selections: two to book and one that is still open when
\* the second booking is ready.
ReadyLists == UNION {[1..n -> ReadyChoices] : n \in 3..MaxPlansReady}

----------------------------------------------------------------------------
(* The run *)

\* The other components at rest.
SessionAtRest ==
    /\ selected = {}
    /\ confirmed = FALSE
    /\ plan_confirmed = FALSE
    /\ op = [name |-> "", row_key |-> 0, mode |-> ""]

VerdictAtRest ==
    /\ total_points = 0
    /\ limit = 0
    /\ evaluation = None

NamesAtRest ==
    /\ name_a = <<>>
    /\ name_b = <<>>
    /\ key_a = None
    /\ key_b = None

\* main has not run yet.
LoginAtRest ==
    /\ secrets = None
    /\ auth_ok = None
    /\ passphrase = None
    /\ page = ""

\* build_schedule is not running.
ScheduleAtRest ==
    /\ plans = <<>>
    /\ df_wait = <<>>
    /\ df_sellout = <<>>
    /\ df_factor = <<>>
    /\ crowd_stars = 2
    /\ interval_min = 0
    /\ open_hour = 9
    /\ close_hour = 21
    /\ tasks = <<>>
    /\ next_dpa_buy_min = 0
    /\ next_pp_get_min = 0
    /\ timeline = <<>>
    /\ notes = <<>>
    /\ t = 0
    /\ pc = "rest"
    /\ run = 1
    /\ prev = None

\* build_schedule is about to be called: the caller has chosen the arguments,
\* the selections among lists.
InitOf(lists) ==
    /\ \E cs \in lists :
          /\ plans = [i \in 1..Len(cs) |-> cs[i].plan]
          /\ df_wait = [i \in 1..Len(cs) |-> cs[i].wait_row]
          /\ df_sellout = [i \in 1..Len(cs) |-> cs[i].sellout_row]
          /\ df_factor = [i \in 1..Len(cs) |-> cs[i].factor_row]
    /\ crowd_stars \in CrowdStars
    /\ interval_min \in Intervals
    /\ \E w \in Windows : open_hour = w[1] /\ close_hour = w[2]
    /\ tasks = <<>>
    /\ next_dpa_buy_min = 0
    /\ next_pp_get_min = 0
    /\ timeline = <<>>
    /\ notes = <<>>
    /\ t = 0
    /\ pc = "call"
    /\ run = 1
    /\ prev = None
    /\ SessionAtRest
    /\ VerdictAtRest
    /\ NamesAtRest
    /\ LoginAtRest

Init == InitOf(PlanLists)

\* The call with three to MaxPlansReady selections.
ReadyInit == InitOf(ReadyLists)

Locals == [ tasks |-> tasks, next_dpa_buy_min |-> next_dpa_buy_min,
            next_pp_get_min |-> next_pp_get_min, timeline |-> timeline,
            notes |-> notes, t |-> t ]

SetLocals(s) ==
    /\ tasks' = s.tasks
    /\ next_dpa_buy_min' = s.next_dpa_buy_min
    /\ next_pp_get_min' = s.next_pp_get_min
    /\ timeline' = s.timeline
    /\ notes' = s.notes
    /\ t' = s.t

\* The call starts: the locals are set up from the arguments.
Enter ==
    /\ pc = "call"
    /\ \E s \in {EntryState(plans)} :
          /\ SetLocals(s)
          /\ plans' = s.plans
    /\ pc' = "loop"
    /\ UNCHANGED <<df_wait, df_sellout, df_factor, crowd_stars, interval_min,
                   open_hour, close_hour, run, prev, ui>>

\* One pass of the while loop.
Iterate ==
    /\ pc = "loop"
    /\ t < T_CLOSE
    /\ \E s \in {Locals} : \E r \in {LoopBody(s)} :
          /\ SetLocals(r.s)
          /\ pc' = IF r.exit THEN "done" ELSE "loop"
    /\ UNCHANGED <<inputs, run, prev, ui>>

\* The loop condition fails: the function returns timeline and notes.
Return ==
    /\ pc = "loop"
    /\ t >= T_CLOSE
    /\ pc' = "done"
    /\ UNCHANGED <<inputs, tasks, next_dpa_buy_min, next_pp_get_min, timeline,
                   notes, t, run, prev, ui>>

\* The caller runs build_schedule again on the same inputs.
Rerun ==
    /\ pc = "done"
    /\ run = 1
    /\ prev' = Some([timeline |-> timeline, notes |-> notes])
    /\ run' = 2
    /\ pc' = "call"
    /\ UNCHANGED <<inputs, tasks, next_dpa_buy_min, next_pp_get_min, timeline,
                   notes, t, ui>>

Next == Enter \/ Iterate \/ Return

Spec == Init /\ [][Next]_vars

\* The run is sequential and never suspended: a step that can be taken is taken.
LiveSpec == Init /\ [][Next]_vars /\ WF_vars(Next)

NextRerun == Next \/ Rerun

RerunSpec == Init /\ [][NextRerun]_vars

\* Runs over the longer lists of selections.
ReadySpec == ReadyInit /\ [][Next]_vars

----------------------------------------------------------------------------
(* Properties *)

HHMMLeq(a, b) == a[1] < b[1] \/ (a[1] = b[1] /\ a[2] <= b[2])

Running == pc \in {"loop", "done"}

Reserved(i) == plans[i].mode \in {MODE_DPA, MODE_PP}

HasRow(i) == \E k \in 1..Len(timeline) : timeline[k].attraction = i

HasNote(i, kind) ==
    \E k \in 1..Len(notes) : notes[k].attraction = i /\ notes[k].kind = kind

\* C1: the start times of the emitted rows, in emission order, never decrease.
C1_StartTimesNonDecreasing ==
    \A k \in 1..(Len(timeline) - 1) :
        HHMMLeq(timeline[k].start, timeline[k + 1].start)

\* A queue row that starts after a positive wait is followed by another row.
C1_Witness ==
    /\ Len(timeline) >= 2
    /\ timeline[1].mode = MODE_WAIT
    /\ timeline[1].queue_start # Some(timeline[1].start)
    /\ timeline[2].mode = MODE_WAIT

\* C2: no row ends later than the close time plus the nominal duration of
\* its activity.
C2_EndWithinOneDurationOfClose ==
    Running =>
        \A k \in 1..Len(timeline) :
            LET a == timeline[k].attraction
                d == IF a = 0 THEN 0 ELSE duration_min(tasks[a])
            IN  HHMMLeq(timeline[k].end, minutes_to_hhmm(T_CLOSE + d, open_hour))

\* A queue row whose ride would start after the close time has been emitted.
C2_Witness ==
    \E k \in 1..Len(timeline) :
        /\ timeline[k].mode = MODE_WAIT
        /\ ~HHMMLeq(timeline[k].start, minutes_to_hhmm(T_CLOSE, open_hour))
        /\ timeline[k].end = minutes_to_hhmm(T_CLOSE, open_hour)

NeverScheduled(i) ==
    /\ tasks[i].status # "booked"
    /\ ~HasRow(i)
    /\ ~HasNote(i, "booked")

RawSelloutBeforeOpen(i) ==
    /\ Reserved(i)
    /\ ~IsNone(get_sellout_hour(df_sellout, i, plans[i].mode))
    /\ Val(get_sellout_hour(df_sellout, i, plans[i].mode)) < open_hour

\* C3 as stated: a DPA or PP selection whose sell-out hour in the table is
\* earlier than the open hour is never booked and never gets a row, whatever
\* the crowd level and the speed factor.
C3_RawSelloutBeforeOpenNeverScheduled ==
    Running => \A i \in 1..Len(tasks) : RawSelloutBeforeOpen(i) => NeverScheduled(i)

EffSelloutByOpen(i) ==
    /\ Reserved(i)
    /\ ~IsNone(sellout_hour_eff(tasks[i]))
    /\ Val(sellout_hour_eff(tasks[i])) <= open_hour

\* C3 amended: a DPA or PP selection whose crowd- and speed-adjusted sell-out
\* hour is at or before the open hour is never booked and never gets a row.
C3_EffSelloutByOpenNeverScheduled ==
    Running => \A i \in 1..Len(tasks) : EffSelloutByOpen(i) => NeverScheduled(i)

\* A selection whose adjusted sell-out hour is the open hour itself was
\* attempted and rejected, and the run has returned.
C3_Witness ==
    /\ pc = "done"
    /\ \E i \in 1..Len(tasks) :
          /\ EffSelloutByOpen(i)
          /\ Val(sellout_hour_eff(tasks[i])) = open_hour
          /\ HasNote(i, "soldout")

\* C4: the run ends only when no selection is todo or booked, or when the
\* clock has reached the close time.
C4_StopsOnlyWhenDoneOrClosed ==
    pc = "done" =>
        \/ \A i \in 1..Len(tasks) : tasks[i].status \notin {"todo", "booked"}
        \/ t >= T_CLOSE

\* C5: at return, every selection without a row is reported in the notes as
\* could not be scheduled.
C5_UnscheduledAreReported ==
    pc = "done" =>
        \A i \in 1..Len(tasks) : ~HasRow(i) => HasNote(i, "soldout")

\* The notes added by the step from the current state to the next one.
NewNotes == {notes'[k] : k \in (Len(notes) + 1)..Len(notes')}

RightOf(mode, dpa, pp) == IF mode = MODE_DPA THEN dpa ELSE pp

\* C7: a step in which a slot is booked for the booking time itself leaves
\* the right of that mode available at the clock the next pass starts with.
C7_ImmediateBookingKeepsRightReady ==
    [][ \A n \in NewNotes :
           (n.kind = "booked" /\ n.ret = Some(minutes_to_hhmm(t, open_hour)))
              => t' >= RightOf(n.mode, next_dpa_buy_min', next_pp_get_min') ]_vars

\* A slot was booked for the booking time and is still waiting to be
\* consumed at the start of the next pass.
C7_Witness ==
    /\ pc = "loop"
    /\ \E i \in 1..Len(tasks) :
          /\ tasks[i].status = "booked"
          /\ tasks[i].return_min # Some(t)
          /\ HasNote(i, "booked")

C9_EveryPassAdvancesClock ==
    [][(pc = "loop" /\ pc' = "loop") => t' > t]_vars

\* A task whose plan gives duration 0 was consumed with interval 0, and the
\* loop goes on.
C9_Witness ==
    /\ pc = "loop"
    /\ interval_min = 0
    /\ t < T_CLOSE
    /\ \E i \in 1..Len(tasks) :
          /\ plans[i].duration = Some(0)
          /\ tasks[i].status = "done"
          /\ HasRow(i)

\* C10: every run reaches its return.
C10_RunTerminates == <>(pc = "done")

\* A run that queued twice, the second time past the close time, has returned.
C10_Witness ==
    /\ pc = "done"
    /\ Len(timeline) >= 2
    /\ timeline[2].mode = MODE_WAIT
    /\ ~HHMMLeq(timeline[2].start, minutes_to_hhmm(T_CLOSE, open_hour))

----------------------------------------------------------------------------
(* The scenario of one queue selection and one DPA selection *)

\* The hour of a clock text.
HourOf(hhmm) == hhmm[1]

\* The row of selection i (it has one).
RowOf(i) == timeline[CHOOSE k \in 1..Len(timeline) : timeline[k].attraction = i]

\* plans holds exactly the queue selection a and the DPA selection b, and
\* the window is 09:00-21:00.
QueueAndDpa(a, b) ==
    /\ Len(plans) = 2
    /\ open_hour = 9
    /\ close_hour = 21
    /\ plans[a].mode = MODE_WAIT
    /\ plans[b].mode = MODE_DPA

\* b was booked, consumed at an hour before h, a has a row, nothing is
\* reported as sold out.
BothScheduled(a, b, h) ==
    /\ HasNote(b, "booked")
    /\ HasRow(b)
    /\ HourOf(RowOf(b).start) < h
    /\ HasRow(a)
    /\ \A i \in 1..Len(tasks) : tasks[i].status = "done" /\ ~HasNote(i, "soldout")

\* C11 as stated: with one queue selection and one DPA selection whose
\* sell-out hour in the table is later than the open hour, the DPA selection
\* is booked and consumed before that hour, the queue selection is scheduled
\* and no selection is left unscheduled.
C11_RawSelloutAfterOpenAllScheduled ==
    pc = "done" =>
        \A a, b \in 1..Len(plans) :
            LET raw == get_sellout_hour(df_sellout, b, MODE_DPA)
            IN  (QueueAndDpa(a, b) /\ ~IsNone(raw) /\ Val(raw) > open_hour)
                    => BothScheduled(a, b, Val(raw))

\* C11 amended: the same, for a DPA selection whose crowd- and speed-adjusted
\* sell-out hour is later than the open hour and whose ride and interval end
\* before the close time.
C11_EffSelloutAfterOpenAllScheduled ==
    pc = "done" =>
        \A a, b \in 1..Len(plans) :
            LET eff == sellout_hour_eff(tasks[b])
            IN  ( /\ QueueAndDpa(a, b)
                  /\ ~IsNone(eff)
                  /\ Val(eff) > open_hour
                  /\ duration_min(tasks[b]) + interval_min < T_CLOSE )
                    => BothScheduled(a, b, Val(eff))

\* The run of a queue selection and a DPA selection with a sell-out entry has
\* returned, with both in the timeline.
C11_Witness ==
    /\ pc = "done"
    /\ \E a, b \in 1..Len(plans) :
          /\ QueueAndDpa(a, b)
          /\ ~IsNone(sellout_hour_eff(tasks[b]))
          /\ Val(sellout_hour_eff(tasks[b])) > open_hour
          /\ BothScheduled(a, b, Val(sellout_hour_eff(tasks[b])))

----------------------------------------------------------------------------
(* Empty input *)

\* C12: with an empty list of plans the run returns an empty timeline and an
\* empty notes list.
C12_EmptyPlansEmptyResult ==
    (Running /\ plans = <<>>) => (timeline = <<>> /\ notes = <<>>)

\* The run on an empty list of plans has returned.
C12_Witness == pc = "done" /\ plans = <<>> /\ tasks = <<>>

----------------------------------------------------------------------------
(* Booking attempts.  An attempt made in a pass shows as the note the pass  *)
(* adds: "booked" with the slot's time, or "soldout".                       *)

\* The hour bucket of the clock.
NowHour == hour_from_min(t, open_hour)

\* The attempt noted by n got a slot at the current time.
GotSlotNow(n) == n.kind = "booked" /\ n.ret = Some(minutes_to_hhmm(t, open_hour))

RawHourOf(n) == get_sellout_hour(df_sellout, n.attraction, n.mode)

EffHourOf(n) == sellout_hour_eff(tasks[n.attraction])

\* C13 as stated: an attempt made while the hour bucket is at or before the
\* sell-out hour of the table, the bucket equal to it included, gets a slot
\* at the current time.
C13_AttemptByRawHourGetsSlotNow ==
    [][ \A n \in NewNotes :
           (~IsNone(RawHourOf(n)) /\ NowHour <= Val(RawHourOf(n))) => GotSlotNow(n) ]_vars

\* C13 amended: an attempt made while the hour bucket is strictly before the
\* crowd- and speed-adjusted sell-out hour gets a slot at the current time; at
\* the bucket equal to that hour, and later, it is found sold out.
C13_AttemptBeforeEffHourGetsSlotNow ==
    [][ \A n \in NewNotes :
           ~IsNone(EffHourOf(n)) =>
               /\ NowHour < Val(EffHourOf(n)) => GotSlotNow(n)
               /\ NowHour >= Val(EffHourOf(n)) => n.kind = "soldout" ]_vars

\* A selection with a sell-out hour got a slot in the middle of an hour
\* bucket, before its adjusted sell-out hour.
C13_Witness ==
    \E k \in 1..Len(notes) :
        /\ notes[k].kind = "booked"
        /\ ~IsNone(EffHourOf(notes[k]))
        /\ Val(notes[k].ret)[2] # 0
        /\ HourOf(Val(notes[k].ret)) < Val(EffHourOf(notes[k]))

\* C14 as stated: no booking succeeds at an hour bucket later than the
\* sell-out hour of the table, and a selection once found sold out is found
\* sold out by every later attempt.
C14_NoBookingAfterRawHour ==
    [][ \A n \in NewNotes :
           /\ (n.kind = "booked" /\ ~IsNone(RawHourOf(n))) => NowHour <= Val(RawHourOf(n))
           /\ HasNote(n.attraction, "soldout") => n.kind = "soldout" ]_vars

\* C14 amended: no booking succeeds at an hour bucket later than the crowd-
\* and speed-adjusted sell-out hour, and a selection once found sold out is
\* found sold out by every later attempt.
C14_NoBookingAfterEffHour ==
    [][ \A n \in NewNotes :
           /\ (n.kind = "booked" /\ ~IsNone(EffHourOf(n))) => NowHour <= Val(EffHourOf(n))
           /\ HasNote(n.attraction, "soldout") => n.kind = "soldout" ]_vars

\* One selection was found sold out, and after it a selection with a sell-out
\* hour was booked.
C14_Witness ==
    \E k, l \in 1..Len(notes) :
        /\ k < l
        /\ notes[k].kind = "soldout"
        /\ notes[l].kind = "booked"
        /\ ~IsNone(EffHourOf(notes[l]))

\* C15: an attempt for a selection without a sell-out hour in the table gets
\* a slot at the current time.
C15_NoEntryNeverSoldOut ==
    [][ \A n \in NewNotes : IsNone(RawHourOf(n)) => GotSlotNow(n) ]_vars

\* A selection without a sell-out hour was booked after the open time.
C15_Witness ==
    \E k \in 1..Len(notes) :
        /\ notes[k].kind = "booked"
        /\ IsNone(RawHourOf(notes[k]))
        /\ notes[k].ret # Some(minutes_to_hhmm(T_OPEN, open_hour))

----------------------------------------------------------------------------
(* Missing data *)

\* Minutes from open of a clock text.
MinOf(hhmm) == (hhmm[1] - open_hour) * 60 + hhmm[2]

\* The wait table gives nothing for attraction a at hour h: no row (or an
\* empty table), no column for the hour, or no value.
WaitMissing(a, h) ==
    \/ IsNone(df_wait[a])
    \/ h \notin DOMAIN Val(df_wait[a])
    \/ IsNone(Val(df_wait[a])[h])

\* The plan of a gives no duration, or a non-positive one.
DurationMissing(a) == IsNone(plans[a].duration) \/ Val(plans[a].duration) <= 0

\* C17: a queue row of a selection without wait data (and without override)
\* is built on the fallback wait of 30 minutes; a row of a selection without
\* a positive duration is built on 10 minutes; and at return such a queue
\* selection has its row unless the clock reached the close time.
C17_MissingDataUsesDefaults ==
    Running =>
        /\ \A k \in 1..Len(timeline) :
              LET r == timeline[k]
                  a == r.attraction
              IN  /\ ( /\ r.memo.kind = "wait"
                        /\ IsNone(plans[a].wait_override_min)
                        /\ WaitMissing(a, HourOf(Val(r.queue_start))) )
                          => r.memo.base_wait = Some(30)
                  /\ (r.memo.kind = "wait" /\ DurationMissing(a))
                          => /\ r.memo.duration_min = Some(10)
                             /\ r.end = minutes_to_hhmm(Min2(MinOf(r.start) + 10, T_CLOSE),
                                                         open_hour)
                  /\ (r.memo.kind = "consume" /\ DurationMissing(a))
                          => r.end = minutes_to_hhmm(Min2(MinOf(r.start) + 10, T_CLOSE),
                                                     open_hour)
        /\ pc = "done" =>
              \A a \in 1..Len(plans) :
                  ( /\ plans[a].mode = MODE_WAIT
                    /\ \/ DurationMissing(a)
                       \/ \E h \in WaitCols : WaitMissing(a, h) )
                      => (HasRow(a) \/ t >= T_CLOSE)

\* The run has returned with a queue row built on both defaults for a table
\* without the hour's column, and another for a selection without a row.
C17_Witness ==
    /\ pc = "done"
    /\ \E k, l \in 1..Len(timeline) :
          /\ timeline[k].memo.kind = "wait"
          /\ ~IsNone(df_wait[timeline[k].attraction])
          /\ HourOf(Val(timeline[k].queue_start)) \notin DOMAIN Val(df_wait[timeline[k].attraction])
          /\ timeline[k].memo.base_wait = Some(30)
          /\ timeline[k].memo.duration_min = Some(10)
          /\ timeline[l].memo.kind = "wait"
          /\ IsNone(df_wait[timeline[l].attraction])
          /\ timeline[l].memo.base_wait = Some(30)

----------------------------------------------------------------------------
(* Priority of a ready booking *)

\* The booked tasks whose slot has arrived.
ReadyNow == {i \in 1..Len(tasks) :
                /\ tasks[i].status = "booked"
                /\ ~IsNone(tasks[i].return_min)
                /\ Val(tasks[i].return_min) <= t}

\* The ready task with the earliest return_min, the first in input order on
\* ties.
EarliestReady ==
    CHOOSE i \in ReadyNow : \A j \in ReadyNow :
        \/ Val(tasks[i].return_min) < Val(tasks[j].return_min)
        \/ Val(tasks[i].return_min) = Val(tasks[j].return_min) /\ i <= j

\* C20: a pass that starts with a ready booked task consumes the earliest
\* one at the current time and does nothing else: one row is added, for that
\* task, no note is added, no other task changes, and the pass ends there.
C20_ReadyBookingConsumedFirst ==
    [][ (pc = "loop" /\ t < T_CLOSE /\ ReadyNow # {}) =>
           /\ Len(timeline') = Len(timeline) + 1
           /\ SubSeq(timeline', 1, Len(timeline)) = timeline
           /\ timeline'[Len(timeline')].attraction = EarliestReady
           /\ timeline'[Len(timeline')].memo.kind = "consume"
           /\ timeline'[Len(timeline')].start = minutes_to_hhmm(t, open_hour)
           /\ tasks'[EarliestReady].status = "done"
           /\ \A j \in 1..Len(tasks) : j # EarliestReady => tasks'[j] = tasks[j]
           /\ notes' = notes
           /\ pc' = "loop" ]_vars

\* A pass is about to start with a booked task whose slot has arrived, while
\* a queue selection is still open and another selection is open whose
\* reservation right is available: without the priority of the ready
\* booking the pass would book the one and queue for the other.
C20_Witness ==
    /\ pc = "loop"
    /\ t < T_CLOSE
    /\ ReadyNow # {}
    /\ Len(timeline) >= 1
    /\ \E j \in 1..Len(tasks) :
          /\ tasks[j].status = "todo"
          /\ tasks[j].mode = MODE_WAIT
    /\ \E j \in 1..Len(tasks) :
          /\ tasks[j].status = "todo"
          /\ tasks[j].mode \in {MODE_DPA, MODE_PP}
          /\ t >= RightOf(tasks[j].mode, next_dpa_buy_min, next_pp_get_min)

----------------------------------------------------------------------------
(* Sold-out selections *)

NotesOf(i) == {k \in 1..Len(notes) : notes[k].attraction = i}

\* C21: a selection whose booking attempt found it sold out is finished, has
\* that one sold-out note and no other note (no later attempt, no booking),
\* and has no row in the timeline.
C21_SoldOutIsDroppedForGood ==
    Running =>
        \A i \in 1..Len(tasks) :
            HasNote(i, "soldout") =>
                /\ tasks[i].status = "done"
                /\ tasks[i].return_min = None
                /\ Cardinality(NotesOf(i)) = 1
                /\ ~HasRow(i)

\* A selection was found sold out in the first pass, and the run went on to
\* emit the row of another selection before it returned.
C21_Witness ==
    /\ pc = "done"
    /\ Len(timeline) >= 1
    /\ timeline[Len(timeline)].attraction # 0
    /\ \E i \in 1..Len(tasks) : HasNote(i, "soldout") /\ notes[1].attraction = i

----------------------------------------------------------------------------
(* Choice of the selection to book *)

\* The adjusted sell-out hour of task i, 99 without entry.
EffKey(i) ==
    IF IsNone(sellout_hour_eff(tasks[i])) THEN 99 ELSE Val(sellout_hour_eff(tasks[i]))

\* The sell-out hour of the table for task i, 99 without entry.
RawKey(i) == score(tasks[i])[1]

\* C22 as stated: the selection a booking attempt picks has the least crowd-
\* and speed-adjusted sell-out hour among the todo selections of its mode, a
\* selection without entry counting as latest.
C22_PickedHasLeastEffHour ==
    [][ \A n \in NewNotes : \A j \in candidates(tasks, n.mode) :
            EffKey(n.attraction) <= EffKey(j) ]_vars

\* C22 amended: the selection a booking attempt picks has the least sell-out
\* hour of the table (not adjusted) among the todo selections of its mode, a
\* selection without entry counting as latest.
C22_PickedHasLeastRawHour ==
    [][ \A n \in NewNotes : \A j \in candidates(tasks, n.mode) :
            RawKey(n.attraction) <= RawKey(j) ]_vars

\* Of two selections of one mode, the second has the earlier sell-out hour in
\* the table and was attempted first.
C22_Witness ==
    /\ Len(tasks) = 2
    /\ tasks[1].mode = tasks[2].mode
    /\ RawKey(2) < RawKey(1)
    /\ Len(notes) >= 1
    /\ notes[1].attraction = 2

----------------------------------------------------------------------------
(* Choice of the queue selection *)

\* The rows added by the step from the current state to the next one.
NewRows == {timeline'[k] : k \in (Len(timeline) + 1)..Len(timeline')}

WaitTodo == {i \in 1..Len(tasks) : tasks[i].status = "todo" /\ tasks[i].mode = MODE_WAIT}

\* C23: when a queue activity starts at the clock t, the wait applied to it
\* (override and time-of-day multiplier included) is the distance from the
\* queue start to the ride start, and no remaining queue selection would
\* have had a shorter applied wait at t.
C23_QueuePickHasLeastAppliedWait ==
    [][ \A row \in NewRows :
            row.mode = MODE_WAIT =>
                /\ row.queue_start = Some(minutes_to_hhmm(t, open_hour))
                /\ row.start = minutes_to_hhmm(t + wait_total(tasks[row.attraction], NowHour),
                                               open_hour)
                /\ \A j \in WaitTodo :
                       wait_total(tasks[row.attraction], NowHour)
                          <= wait_total(tasks[j], NowHour) ]_vars

----------------------------------------------------------------------------
(* Reservation rights *)

ConsumedIn(rows, mode) == {row \in rows : row.mode = mode /\ row.attraction # 0}

\* C24: both rights are at the open time when the loop is entered; a step
\* that emits a queue row leaves both rights unchanged; a step that consumes
\* a slot of a mode leaves that mode's right at most at the end of that ride;
\* in every other step of the loop a right does not decrease.
C24_RightsOnlyLoweredByConsumption ==
    [][ /\ (pc = "call" /\ pc' = "loop") =>
              (next_dpa_buy_min' = T_OPEN /\ next_pp_get_min' = T_OPEN)
        /\ pc = "loop" =>
              /\ ConsumedIn(NewRows, MODE_WAIT) # {} =>
                     UNCHANGED <<next_dpa_buy_min, next_pp_get_min>>
              /\ \A m \in {MODE_DPA, MODE_PP} :
                     IF ConsumedIn(NewRows, m) # {}
                     THEN \A row \in ConsumedIn(NewRows, m) :
                             RightOf(m, next_dpa_buy_min', next_pp_get_min')
                                <= MinOf(row.end)
                     ELSE RightOf(m, next_dpa_buy_min', next_pp_get_min')
                             >= RightOf(m, next_dpa_buy_min, next_pp_get_min) ]_vars

\* The run has returned after consuming a slot and queueing once, the rides
\* taking time.
C24_Witness ==
    /\ pc = "done"
    /\ \A m \in {MODE_DPA, MODE_WAIT} :
          \E k \in 1..Len(timeline) :
              /\ timeline[k].mode = m
              /\ timeline[k].end # timeline[k].start

\* C25: every slot booked in a step is for the booking time itself (in the
\* note and in the task), and both rights are at the open time whenever the
\* loop is running or has returned, so a right is never later than the clock.
C25_NoFutureDatedBooking ==
    [][ /\ \A n \in NewNotes :
              n.kind = "booked" => n.ret = Some(minutes_to_hhmm(t, open_hour))
        /\ \A i \in 1..Len(tasks) :
              (pc = "loop" /\ tasks[i].status = "todo" /\ tasks'[i].status = "booked")
                 => tasks'[i].return_min = Some(t)
        /\ pc' \in {"loop", "done"} =>
              /\ next_dpa_buy_min' = T_OPEN
              /\ next_pp_get_min' = T_OPEN
              /\ t' >= next_dpa_buy_min'
              /\ t' >= next_pp_get_min' ]_vars

\* Two slots of one mode were booked, the second after the clock had moved,
\* and the run has returned.
C25_Witness ==
    /\ pc = "done"
    /\ \E k \in 1..Len(notes) : \E l \in 1..Len(notes) :
          /\ k < l
          /\ notes[k].kind = "booked"
          /\ notes[l].kind = "booked"
          /\ notes[k].mode = notes[l].mode
          /\ notes[k].ret # notes[l].ret

----------------------------------------------------------------------------
(* Booked selections *)

BookedIn(tks) == {i \in 1..Len(tks) : tks[i].status = "booked"}

OneBookedPerMode(tks) ==
    \A i \in BookedIn(tks) : \A j \in BookedIn(tks) :
        tks[i].mode = tks[j].mode => i = j

\* The tasks between step 2 and step 3 of the pass that starts in the current
\* state, when that pass gets to step 2.
AfterStep2 == try_bookings(Locals).tasks

\* C26: at the start of every pass of the loop (and at return) at most one
\* task is booked; after the booking attempts of a pass, before the
\* consumption, no two tasks of one mode are booked.
C26_AtMostOneBookedAtPassStart ==
    Running =>
        /\ Cardinality(BookedIn(tasks)) <= 1
        /\ OneBookedPerMode(tasks)
        /\ (pc = "loop" /\ t < T_CLOSE /\ IsNone(find_booked_ready(tasks, t)))
              => OneBookedPerMode(AfterStep2)

\* A pass starts with one slot booked, left over from a pass that booked a
\* slot of each mode and consumed the other.
C26_Witness ==
    /\ pc = "loop"
    /\ Cardinality(BookedIn(tasks)) = 1
    /\ \E k \in 1..Len(timeline) : timeline[k].mode = MODE_DPA

----------------------------------------------------------------------------
(* Task status and activity rows *)

StatusRank(status) ==
    CASE status = "todo" -> 0
      [] status = "booked" -> 1
      [] status = "done" -> 2

\* The indices of the rows of selection i in a timeline.
RowsOf(tl, i) == {k \in 1..Len(tl) : tl[k].attraction = i}

ActivityRows(tl) == {k \in 1..Len(tl) : tl[k].attraction # 0}

\* C27: in every step of a run a task's status stays or moves forward (todo,
\* booked, done); every selection has at most one row; every activity row is
\* the row of one input selection, with that selection's mode; so there are
\* never more activity rows than selections.
C27_StatusForwardOneRowEach ==
    [][ pc = "loop" =>
          /\ \A i \in 1..Len(tasks) :
                StatusRank(tasks'[i].status) >= StatusRank(tasks[i].status)
          /\ \A i \in 1..Len(plans) : Cardinality(RowsOf(timeline', i)) <= 1
          /\ \A k \in ActivityRows(timeline') :
                /\ timeline'[k].attraction \in 1..Len(plans)
                /\ timeline'[k].mode = plans[timeline'[k].attraction].mode
          /\ Cardinality(ActivityRows(timeline')) <= Len(plans) ]_vars

\* Every one of two selections got its row, one by consuming a slot and one
\* by queueing.
C27_Witness ==
    /\ pc = "done"
    /\ Len(plans) = 2
    /\ Cardinality(ActivityRows(timeline)) = 2
    /\ \E k \in ActivityRows(timeline) : timeline[k].mode = MODE_WAIT
    /\ \E k \in ActivityRows(timeline) : timeline[k].mode # MODE_WAIT

\* C28: every row of the timeline starts no later than it ends, the rows of
\* queue activities whose wait runs up to or past the close time included.
C28_RowStartsBeforeItEnds ==
    \A k \in 1..Len(timeline) : HHMMLeq(timeline[k].start, timeline[k].end)

----------------------------------------------------------------------------
(* Hour buckets of the wait lookups *)

\* The hour bucket in which a queue row was started.
QueueHour(row) == HourOf(Val(row.queue_start))

\* C32: in every step that starts a queue activity, the hour bucket of the
\* wait lookups is the bucket of the queue start and lies between the open
\* hour and the close hour: the row holds the wait and the multiplier of
\* that bucket, and the picked selection has the least table wait of that
\* bucket among the queue selections still todo.
C32_WaitLookupHourInWindow ==
    [][ \A row \in NewRows :
            row.mode = MODE_WAIT =>
                /\ open_hour <= QueueHour(row)
                /\ QueueHour(row) <= close_hour
                /\ QueueHour(row) \in WaitCols
                /\ row.memo.base_wait
                      = Some(base_wait(tasks[row.attraction], QueueHour(row)))
                /\ row.memo.mult
                      = Some(factor_wait_multiplier(df_factor, row.attraction,
                                                    QueueHour(row)))
                /\ \A j \in WaitTodo :
                      get_wait_minutes(df_wait, row.attraction, QueueHour(row))
                         <= get_wait_minutes(df_wait, j, QueueHour(row)) ]_vars

\* A queue activity was started in the first bucket and another in the last
\* bucket before the close hour.
C32_Witness ==
    /\ pc = "done"
    /\ \E k \in 1..Len(timeline) :
          timeline[k].mode = MODE_WAIT /\ QueueHour(timeline[k]) = open_hour
    /\ \E k \in 1..Len(timeline) :
          timeline[k].mode = MODE_WAIT /\ QueueHour(timeline[k]) = close_hour - 1

----------------------------------------------------------------------------
(* Selection state of the session *)

\* The row keys park__attraction of the points table.
RowKeys == 1..MaxKeys

\* d.get(k)
dict_get(d, k) ==
    IF \E p \in d : p[1] = k THEN Some((CHOOSE p \in d : p[1] = k)[2]) ELSE None

\* d.pop(k, None)
dict_pop(d, k) == {p \in d : p[1] # k}

\* Variant of dict_set: the item is added next to the one the key has.
dict_set_append(d, k, v) == d \cup {<<k, v>>}

\* d[k] = v
dict_set(d, k, v) == dict_pop(d, k) \cup {<<k, v>>}

\* Variant of toggle_select: setting a mode drops the other keys.
toggle_select_exclusive(sel, row_key, mode) ==
    LET cur == dict_get(sel, row_key)
    IN  IF cur = Some(mode) THEN dict_pop(sel, row_key)
        ELSE {<<row_key, mode>>}

\* The value of session_state["selected"] after toggle_select(row_key, mode).
toggle_select(sel, row_key, mode) ==
    LET cur == dict_get(sel, row_key)
    IN  IF cur = Some(mode) THEN dict_pop(sel, row_key)
        ELSE dict_set(sel, row_key, mode)

Handler(name, row_key, mode) == [name |-> name, row_key |-> row_key, mode |-> mode]

\* _ensure_state on a fresh session.
SessionInit ==
    /\ selected = {}
    /\ confirmed = FALSE
    /\ plan_confirmed = FALSE
    /\ op = Handler("_ensure_state", 0, "")
    /\ ScheduleAtRest
    /\ VerdictAtRest
    /\ NamesAtRest
    /\ LoginAtRest

\* A points cell is pressed: on_click=toggle_select, args=(row_key, mode).
ToggleSelect ==
    /\ \E row_key \in RowKeys, mode \in Modes :
          /\ selected' = toggle_select(selected, row_key, mode)
          /\ op' = Handler("toggle_select", row_key, mode)
    /\ UNCHANGED <<confirmed, plan_confirmed, schedule, verdict, names, login>>

\* The clear button: clear_all_selections().
ClearAllSelections ==
    /\ selected' = {}
    /\ confirmed' = FALSE
    /\ plan_confirmed' = FALSE
    /\ op' = Handler("clear_all_selections", 0, "")
    /\ UNCHANGED <<schedule, verdict, names, login>>

\* The confirm button.
Confirm ==
    /\ confirmed' = TRUE
    /\ op' = Handler("btn_confirm_left", 0, "")
    /\ UNCHANGED <<selected, plan_confirmed, schedule, verdict, names, login>>

\* The make-plan button.
MakePlan ==
    /\ plan_confirmed' = TRUE
    /\ op' = Handler("btn_make_plan", 0, "")
    /\ UNCHANGED <<selected, confirmed, schedule, verdict, names, login>>

\* The hide-plan button.
HidePlan ==
    /\ plan_confirmed' = FALSE
    /\ op' = Handler("btn_hide_plan", 0, "")
    /\ UNCHANGED <<selected, confirmed, schedule, verdict, names, login>>

NextSession == ToggleSelect \/ ClearAllSelections \/ Confirm \/ MakePlan \/ HidePlan

SessionSpec == SessionInit /\ [][NextSession]_vars

\* C18: after every step each key holds at most one mode; a toggle of the
\* mode the key has removes the key, a toggle of another mode (or on a key
\* without mode) leaves the key with the toggled mode.
C18_OneModePerKey ==
    [][ /\ \A p, q \in selected' : p[1] = q[1] => p = q
        /\ op'.name = "toggle_select" =>
              IF dict_get(selected, op'.row_key) = Some(op'.mode)
              THEN dict_get(selected', op'.row_key) = None
              ELSE dict_get(selected', op'.row_key) = Some(op'.mode) ]_vars

\* A toggle has just set the mode of a key that had a mode, while the other
\* key is selected too.
C18_Witness ==
    /\ op = Handler("toggle_select", 1, MODE_DPA)
    /\ selected = {<<1, MODE_DPA>>, <<2, MODE_WAIT>>}

\* C29: a toggle leaves the mode of every other key and both flags as they
\* were; clear_all_selections leaves no key selected and both flags false;
\* no other handler changes the selection.
C29_ToggleTouchesOnlyItsKey ==
    [][ /\ op'.name = "toggle_select" =>
              /\ \A k \in RowKeys \ {op'.row_key} :
                     dict_get(selected', k) = dict_get(selected, k)
              /\ UNCHANGED <<confirmed, plan_confirmed>>
        /\ op'.name = "clear_all_selections" =>
              /\ selected' = {}
              /\ confirmed' = FALSE
              /\ plan_confirmed' = FALSE
        /\ op'.name \notin {"toggle_select", "clear_all_selections"} =>
              selected' = selected ]_vars

\* A toggle has just given a key a mode while another key is selected and
\* both flags are set.
C29_Witness ==
    /\ op.name = "toggle_select"
    /\ dict_get(selected, op.row_key) = Some(op.mode)
    /\ \E k \in RowKeys \ {op.row_key} : dict_get(selected, k) # None
    /\ confirmed
    /\ plan_confirmed

----------------------------------------------------------------------------
(* The verdict: evaluate(total_points, limit) *)

\* A ratio is kept as the pair <<numerator, denominator>>, denominator > 0.
RatioLeq(ratio, hundredths) == ratio[1] * 100 <= hundredths * ratio[2]

\* Variant of evaluate: the first threshold is exclusive.
evaluate_first_exclusive(tp, lim) ==
    LET ratio == IF lim > 0 THEN <<tp, lim>> ELSE <<999, 1>>
    IN  [ limit |-> lim,
          ratio |-> ratio,
          label |-> IF ratio[1] * 100 < 75 * ratio[2] THEN 1
                    ELSE IF RatioLeq(ratio, 100) THEN 2
                    ELSE IF RatioLeq(ratio, 125) THEN 3
                    ELSE 4 ]

\* label is the number of the label (and of its message) in the order of
\* the source: 1 easy, 2 about right, 3 hard, 4 nearly impossible.
evaluate(tp, lim) ==
    LET ratio == IF lim > 0 THEN <<tp, lim>> ELSE <<999, 1>>
    IN  [ limit |-> lim,
          ratio |-> ratio,
          label |-> IF RatioLeq(ratio, 75) THEN 1
                    ELSE IF RatioLeq(ratio, 100) THEN 2
                    ELSE IF RatioLeq(ratio, 125) THEN 3
                    ELSE 4 ]

\* Limits given to evaluate: crowd_limit_30min_from_stars gives 6, 9 and 12;
\* 0 and -1 stand for a limit that is not positive.
Limits == {-1, 0, 6, 9, 12}

EvalInit ==
    /\ total_points \in 0..MaxPoints
    /\ limit \in Limits
    /\ evaluation = None
    /\ ScheduleAtRest
    /\ SessionAtRest
    /\ NamesAtRest
    /\ LoginAtRest

\* main: ev = evaluate(total_points, limit)
Evaluate ==
    /\ IsNone(evaluation)
    /\ evaluation' = Some(evaluate(total_points, limit))
    /\ UNCHANGED <<total_points, limit, schedule, session, names, login>>

NextEval == Evaluate

EvalSpec == EvalInit /\ [][NextEval]_vars

\* C19: the verdict is the first label when total_points/limit <= 0.75, the
\* second when 0.75 < ratio <= 1.00, the third when 1.00 < ratio <= 1.25, the
\* fourth when ratio > 1.25; with limit <= 0 it is the fourth for every score.
C19_VerdictByRatio ==
    ~IsNone(evaluation) =>
        LET label == Val(evaluation).label
            n == 100 * total_points
        IN  IF limit <= 0 THEN label = 4
            ELSE /\ label = 1 <=> n <= 75 * limit
                 /\ label = 2 <=> (75 * limit < n /\ n <= 100 * limit)
                 /\ label = 3 <=> (100 * limit < n /\ n <= 125 * limit)
                 /\ label = 4 <=> 125 * limit < n

\* The verdict at the ratio 0.75 exactly has been computed.
C19_Witness ==
    /\ total_points = 9
    /\ limit = 12
    /\ evaluation = Some([limit |-> 12, ratio |-> <<9, 12>>, label |-> 1])

----------------------------------------------------------------------------
(* Name normalisation: norm_text *)

\* The characters of the model: a letter in both cases, the space, the
\* full-width space U+3000, a quote character and a punctuation character of
\* the strip list.
Letters == {"a", "A"}
SPACE == " "
WIDE_SPACE == "u3000"
Whitespace == {SPACE, WIDE_SPACE}
Quotes == {"'"}
Punctuation == {"-", WIDE_SPACE}
Chars == Letters \cup Whitespace \cup Quotes \cup {"-"}

\* t.strip(chars): the characters of cs are removed from both ends.
RECURSIVE lstrip(_, _)
lstrip(txt, cs) ==
    IF txt # <<>> /\ Head(txt) \in cs THEN lstrip(Tail(txt), cs) ELSE txt

RECURSIVE rstrip(_, _)
rstrip(txt, cs) ==
    IF txt # <<>> /\ txt[Len(txt)] \in cs
    THEN rstrip(SubSeq(txt, 1, Len(txt) - 1), cs) ELSE txt

strip(txt, cs) == rstrip(lstrip(txt, cs), cs)

\* t.replace(old, new) for one character.
replace(txt, old, new) == [i \in 1..Len(txt) |-> IF txt[i] = old THEN new ELSE txt[i]]

\* t.replace(q, "") for every quote character q.
remove_quotes(txt) == SelectSeq(txt, LAMBDA c : c \notin Quotes)

\* re.sub(r"\s+", " ", t): every run of whitespace becomes one space.
RECURSIVE collapse_spaces(_)
collapse_spaces(txt) ==
    IF txt = <<>> THEN <<>>
    ELSE IF Head(txt) \in Whitespace
    THEN <<SPACE>> \o collapse_spaces(lstrip(txt, Whitespace))
    ELSE <<Head(txt)>> \o collapse_spaces(Tail(txt))

\* strip, full-width space to space, quotes removed, whitespace collapsed
\* and stripped, punctuation stripped; the result is not stripped again.
norm_text(txt) ==
    strip(strip(collapse_spaces(remove_quotes(
        replace(strip(txt, Whitespace), WIDE_SPACE, SPACE))), Whitespace),
        Punctuation)

\* The names of at most n characters.
Texts(n) == UNION {[1..k -> Chars] : k \in 0..n}

InsertAt(txt, i, c) == SubSeq(txt, 1, i) \o <<c>> \o SubSeq(txt, i + 1, Len(txt))

\* The names that differ from txt in the case of one letter.
CaseVariants(txt) ==
    {[txt EXCEPT ![i] = IF @ = "a" THEN "A" ELSE "a"] :
        i \in {j \in 1..Len(txt) : txt[j] \in Letters}}

\* The names that differ from txt in one surrounding or repeated whitespace
\* character, or in the kind of one whitespace character.
SpaceVariants(txt) ==
    {InsertAt(txt, i, w) :
        w \in Whitespace,
        i \in {j \in 0..Len(txt) :
                  \/ j = 0
                  \/ j = Len(txt)
                  \/ txt[j] \in Whitespace
                  \/ txt[j + 1] \in Whitespace}}
    \cup {[txt EXCEPT ![i] = IF @ = SPACE THEN WIDE_SPACE ELSE SPACE] :
             i \in {j \in 1..Len(txt) : txt[j] \in Whitespace}}

\* The names that differ from txt in one quote character.
QuoteVariants(txt) == {InsertAt(txt, i, q) : q \in Quotes, i \in 0..Len(txt)}

\* The names that differ from txt in one leading or trailing punctuation
\* character.
PunctVariants(txt) == {<<"-">> \o txt, txt \o <<"-">>}

Variants(txt) ==
    CaseVariants(txt) \cup SpaceVariants(txt) \cup QuoteVariants(txt)
        \cup PunctVariants(txt)

NamesInit ==
    /\ name_a \in Texts(MaxLen)
    /\ name_b \in Variants(name_a)
    /\ key_a = None
    /\ key_b = None
    /\ ScheduleAtRest
    /\ SessionAtRest
    /\ VerdictAtRest
    /\ LoginAtRest

\* The two tables are loaded: each name gets its key (_attr_norm), and a
\* lookup matches the rows whose keys are equal.
Normalize ==
    /\ IsNone(key_a)
    /\ key_a' = Some(norm_text(name_a))
    /\ key_b' = Some(norm_text(name_b))
    /\ UNCHANGED <<name_a, name_b, schedule, session, verdict, login>>

NextNames == Normalize

NamesSpec == NamesInit /\ [][NextNames]_vars

\* C16: two names that differ only in letter case, in repeated or
\* surrounding whitespace, in quote characters or in leading or trailing
\* punctuation get the same key.
C16_VariantsGetSameKey ==
    ~IsNone(key_a) => key_a = key_b

\* A key is given to norm_text again, as when a normalised name is looked up
\* in a table.
Renormalize ==
    /\ ~IsNone(key_a)
    /\ key_a' = Some(norm_text(Val(key_a)))
    /\ key_b' = Some(norm_text(Val(key_b)))
    /\ UNCHANGED <<name_a, name_b, schedule, session, verdict, login>>

NextRenorm == Normalize \/ Renormalize

RenormSpec == NamesInit /\ [][NextRenorm]_vars

\* C31: norm_text applied to a text it has returned gives that text back, so
\* a key never changes when it is normalised again.
C31_NormTextIdempotent ==
    [][ ~IsNone(key_a) => (key_a' = key_a /\ key_b' = key_b) ]_vars

----------------------------------------------------------------------------
(* Login gate *)

\* The UTF-8 byte of a character of a passphrase, in hex.
HexOf(c) ==
    CASE c = "p" -> "70"
      [] c = "q" -> "71"
      [] c = SPACE -> "20"
      [] c = WIDE_SPACE -> "e38080"

\* hashlib.sha256(text.encode("utf-8")).hexdigest(), without collisions: the
\* digest of a text is a tag followed by the bytes of the text.  Like a hex
\* digest it is never empty and holds no whitespace.
sha256_hex(text) == <<"sha256">> \o [i \in 1..Len(text) |-> HexOf(text[i])]

\* The first non-empty one of the two entries, "" when st.secrets raises or
\* both are missing or empty.
expected_hash(sec) ==
    IF IsNone(sec) THEN <<>>
    ELSE IF Val(sec).PASSWORD_SHA256 # <<>> THEN Val(sec).PASSWORD_SHA256
    ELSE Val(sec).APP_PASSPHRASE_HASH

\* Variant of verify_passphrase: without a configured hash every passphrase
\* is accepted.
verify_passphrase_fail_open(sec, text) ==
    IF expected_hash(sec) = <<>> THEN TRUE
    ELSE sha256_hex(strip(text, Whitespace)) = strip(expected_hash(sec), Whitespace)

verify_passphrase(sec, text) ==
    IF expected_hash(sec) = <<>> THEN FALSE
    ELSE sha256_hex(strip(text, Whitespace)) = strip(expected_hash(sec), Whitespace)

\* bool(st.session_state.get("auth_ok", False))
login_gate(auth) == IF IsNone(auth) THEN FALSE ELSE Val(auth)

\* main: the application body is rendered only when login_gate() is true.
main(auth) == IF login_gate(auth) THEN "app" ELSE "login"

PassChars == {"p", "q", SPACE}

Passphrases == UNION {[1..k -> PassChars] : k \in 0..MaxPass}

\* Values of a hash entry: missing or empty, blank, the digest of "p" as it
\* is and with a trailing blank, the digest of "q", the digest of " p".
HashChoices ==
    { <<>>,
      <<SPACE>>,
      sha256_hex(<<"p">>),
      sha256_hex(<<"p">>) \o <<SPACE>>,
      sha256_hex(<<"q">>),
      sha256_hex(<<SPACE, "p">>) }

SecretsChoices ==
    {None} \cup {Some([PASSWORD_SHA256 |-> a, APP_PASSPHRASE_HASH |-> b]) :
                    a \in HashChoices, b \in HashChoices}

\* A fresh session: main has not run, session_state has no auth_ok.
LoginInit ==
    /\ secrets \in SecretsChoices
    /\ auth_ok = None
    /\ passphrase = None
    /\ page = ""
    /\ ScheduleAtRest
    /\ SessionAtRest
    /\ VerdictAtRest
    /\ NamesAtRest

\* A run of main in which the login button was pressed with a text.
LoginPress ==
    /\ \E text \in Passphrases :
          /\ passphrase' = Some(text)
          /\ auth_ok' = Some(verify_passphrase(secrets, text))
    /\ page' = main(auth_ok')
    /\ UNCHANGED <<secrets, schedule, session, verdict, names>>

\* A run of main without a press of the login button.
MainRun ==
    /\ page' = main(auth_ok)
    /\ UNCHANGED <<secrets, auth_ok, passphrase, schedule, session, verdict, names>>

NextLogin == LoginPress \/ MainRun

LoginSpec == LoginInit /\ [][NextLogin]_vars

\* The non-empty configured hash entries.
ConfiguredHashes ==
    IF IsNone(secrets) THEN {}
    ELSE {Val(secrets).PASSWORD_SHA256, Val(secrets).APP_PASSPHRASE_HASH} \ {<<>>}

\* C30 as stated: auth_ok is true only if the last press submitted a
\* passphrase whose digest equals a non-empty configured hash, and the
\* application body is shown only while auth_ok is true.
C30_AuthOnlyByMatchingDigest ==
    /\ auth_ok = Some(TRUE) =>
          /\ ~IsNone(passphrase)
          /\ sha256_hex(Val(passphrase)) \in ConfiguredHashes
    /\ page = "app" => auth_ok = Some(TRUE)

\* C30 amended: auth_ok is true only if the last press submitted a
\* passphrase whose digest, taken after trimming the whitespace around the
\* passphrase, equals a non-empty configured hash with the whitespace around
\* it trimmed; the application body is shown only while auth_ok is true.
C30_AuthOnlyByMatchingTrimmedDigest ==
    /\ auth_ok = Some(TRUE) =>
          /\ ~IsNone(passphrase)
          /\ \E h \in ConfiguredHashes :
                sha256_hex(strip(Val(passphrase), Whitespace)) = strip(h, Whitespace)
    /\ page = "app" => auth_ok = Some(TRUE)

\* The body is shown after a press with the right passphrase followed by a
\* blank, the hash being configured under the second entry only.
C30_Witness ==
    /\ page = "app"
    /\ auth_ok = Some(TRUE)
    /\ passphrase = Some(<<"p", SPACE>>)
    /\ Val(secrets).PASSWORD_SHA256 = <<>>

====
